---- MODULE Spec2Model ----
(***************************************************************************)
(* Model of the chaim-cdk binder core and of its deploy-time ingestion     *)
(* handler.                                                                *)
(*                                                                         *)
(*  - Synthesis side: BaseChaimBinder's constructor, the stable identity   *)
(*    and the resource-id allocator probing the snapshot cache directory.  *)
(*  - Deploy side: the ingestion Lambda handler (presign, upload, commit)  *)
(*    and its failure-mode policy.                                         *)
(*                                                                         *)
(* Strings are TLA+ strings, so every key or id the code builds by         *)
(* interpolation is built here by concatenation.                           *)
(***************************************************************************)
EXTENDS Naturals, Integers, Sequences, FiniteSets, TLC

VARIABLES
    cache,      \* snapshot cache: file path -> file content
    built,      \* history of binder constructions, oldest first
    attempt,    \* the last call of the constructor and how it ended
    procs,      \* constructors running in concurrent synthesis processes
    svcCall,    \* the last call of a synthesis service: its argument, its result
    env,        \* environment variables of the ingestion Lambda
    bundle,     \* ./snapshot.json of the deployed Lambda bundle
    crState,    \* the custom resource as the orchestrator sees it
    op,         \* the lifecycle operation in progress (event of the hook)
    opEventIds, \* event ids submitted to the service for that operation
    sentRefs,   \* <<action, resourceId>> of the snapshot-ref requests issued
    physicalIds, \* PhysicalResourceIds returned for the resource since its Create
    last        \* the last invocation of the handler and what it did

synthVars == <<cache, built, attempt, procs>>
hookVars == <<env, bundle, crState, op, opEventIds, sentRefs, physicalIds, last>>
vars == <<cache, built, attempt, procs, svcCall, env, bundle, crState, op, opEventIds,
          sentRefs, physicalIds, last>>

(***************************************************************************)
(* Bounds of the model.                                                    *)
(***************************************************************************)
MaxConstructions == 3
MaxFields == 2
MaxKeys == 2

(***************************************************************************)
(* Synthesis inputs.  A declaration is what one `new Binder(scope, id,     *)
(* props)` sees: the props, the enclosing stack and its own construct      *)
(* path, the table handle (when the subclass provides getTable()).         *)
(***************************************************************************)
DatastoreType == "dynamodb"
AccountId == "123456789012"
Region == "us-east-1"
TokenName == "${Token[TOKEN.12]}"

Decl(appId, path, id, tableName, hasTable, logicalId) ==
    [appId |-> appId, stackName |-> "S", path |-> path, id |-> id,
     tableName |-> tableName, hasTable |-> hasTable, logicalId |-> logicalId,
     entityName |-> "E"]

\* two binders for entity E on the explicitly named table T, at two places
\* of the construct tree
DeclA == Decl("a", "S/B", "B", "T", FALSE, "")
DeclB == Decl("a", "S/N/B", "B", "T", FALSE, "")
\* construct ids and application ids are free text: these two hold the
\* separator of the match key
DeclX == Decl("a", "S/x:S:dynamodb:E:path:S/B", "B", "T", FALSE, "")
DeclY == Decl("a:S:dynamodb:E:path:S/x", "S/B", "B", "T", FALSE, "")
\* binders whose subclass hands the table to the identity resolver
DeclT == Decl("a", "S/B", "B", "T", TRUE, "TableCD117FA1")
DeclL == Decl("a", "S/B", "B", TokenName, TRUE, "TableCD117FA1")
DeclM == Decl("a", "S/M", "M", TokenName, TRUE, "")

Decls == {DeclA, DeclB, DeclX, DeclY, DeclT, DeclL, DeclM}

(***************************************************************************)
(* services/stable-identity                                                *)
(***************************************************************************)
Includes(s, t) ==
    \E i \in 1..(Len(s) + 1 - Len(t)) : SubSeq(s, i, i + Len(t) - 1) = t

isToken(value) ==
    IF value = "" THEN TRUE
    ELSE Includes(value, "${Token") \/ Includes(value, "${AWS::")

getStableResourceKey(d) ==
    IF d.tableName # "" /\ ~isToken(d.tableName)
        THEN "tableName:" \o d.tableName
    ELSE IF d.logicalId # "" /\ ~isToken(d.logicalId)
        THEN "logicalId:" \o d.logicalId
    ELSE "path:" \o d.path

computeStableResourceKey(d) ==
    IF d.hasTable THEN getStableResourceKey(d) ELSE "path:" \o d.path

buildMatchKey(identity) ==
    identity.appId \o ":" \o identity.stackName \o ":" \o identity.datastoreType
        \o ":" \o identity.entityName \o ":" \o identity.stableResourceKey

getResourceName(d) ==
    IF d.tableName # "" /\ ~isToken(d.tableName) THEN d.tableName ELSE d.id

getEntityName(d) == d.entityName

Identity(d) ==
    [appId |-> d.appId, stackName |-> d.stackName, datastoreType |-> DatastoreType,
     entityName |-> getEntityName(d), stableResourceKey |-> computeStableResourceKey(d)]

BaseId(resourceName, entityName) == resourceName \o "__" \o entityName

(***************************************************************************)
(* Cache layout: {provider}/{accountId}/{region}/{stackName}/              *)
(* {datastoreType}/{resourceId}.json                                       *)
(***************************************************************************)
getSnapshotDir(stackName, datastoreType) ==
    "aws/" \o AccountId \o "/" \o Region \o "/" \o stackName \o "/" \o datastoreType

FilePath(dir, resourceId) == dir \o "/" \o resourceId \o ".json"

getLocalSnapshotPath(stackName, datastoreType, resourceId) ==
    FilePath(getSnapshotDir(stackName, datastoreType), resourceId)

\* File contents.  A snapshot written by a binder parses back to the object it
\* was serialized from; a file may also hold JSON without an identity, or
\* bytes that cannot be read or parsed.
NoIdentityFile == [kind |-> "noIdentity"]
UnreadableFile == [kind |-> "unreadable"]
\* a snapshot whose identity holds no stable resource key
KeylessFile ==
    [kind |-> "snapshot",
     identity |-> [appId |-> "a", stackName |-> "S", datastoreType |-> "dynamodb",
                   entityName |-> "E", stableResourceKey |-> ""]]

existsSync(files, p) == p \in DOMAIN files

\* lines 129-147: TRUE when the existing file is this binding's own snapshot
SameResourceNever(existing, matchKey) == FALSE

SameResourceAlways(existing, matchKey) == TRUE

SameResourceLenient(existing, matchKey) ==
    IF existing.kind = "unreadable" THEN FALSE
    ELSE IF existing.kind = "noIdentity" THEN TRUE
    ELSE IF existing.identity.stableResourceKey = "" THEN TRUE
    ELSE buildMatchKey(existing.identity) = matchKey

SameResource(existing, matchKey) ==
    IF existing.kind = "unreadable" THEN FALSE
    ELSE IF existing.kind = "noIdentity" THEN FALSE
    ELSE IF existing.identity.stableResourceKey = "" THEN FALSE
    ELSE buildMatchKey(existing.identity) = matchKey

CandidateDoubling(baseId, suffix) ==
    IF suffix = 1 THEN baseId ELSE baseId \o "__" \o ToString(2 * suffix)

Candidate(baseId, suffix) ==
    IF suffix = 1 THEN baseId ELSE baseId \o "__" \o ToString(suffix)

RECURSIVE Probe(_, _, _, _, _)
Probe(files, cacheDir, baseId, matchKey, suffix) ==
    LET candidateId == Candidate(baseId, suffix)
        filePath == FilePath(cacheDir, candidateId)
    IN  IF ~existsSync(files, filePath) THEN candidateId
        ELSE IF SameResource(files[filePath], matchKey) THEN candidateId
        ELSE Probe(files, cacheDir, baseId, matchKey, suffix + 1)

generateResourceIdKeyed(resourceName, entityName, identity, cacheDir, files) ==
    BaseId(resourceName, entityName) \o "__" \o identity.stableResourceKey

generateResourceId(resourceName, entityName, identity, cacheDir, files) ==
    Probe(files, cacheDir, BaseId(resourceName, entityName),
          buildMatchKey(identity), 1)

(***************************************************************************)
(* BaseChaimBinder                                                         *)
(***************************************************************************)
buildLocalSnapshot(d, resourceName, identity, resourceId, capturedAt) ==
    [kind |-> "snapshot", provider |-> "aws", accountId |-> AccountId,
     region |-> Region, stackName |-> d.stackName, datastoreType |-> DatastoreType,
     resourceName |-> resourceName, resourceId |-> resourceId,
     identity |-> identity, appId |-> d.appId,
     dataStore |-> [type |-> DatastoreType, tableName |-> d.tableName,
                    tableArn |-> "arn:aws:dynamodb:" \o d.tableName],
     capturedAt |-> capturedAt]

\* new Date().toISOString() at the n-th construction
Clock(n) == "T" \o ToString(n)

WriteFile(files, p, content) ==
    [q \in (DOMAIN files) \cup {p} |-> IF q = p THEN content ELSE files[q]]

(***************************************************************************)
(* config/chaim-endpoints, services/ingestion-service                      *)
(***************************************************************************)
DEFAULT_API_BASE_URL == "https://api.chaim.co"
DEFAULT_MAX_SNAPSHOT_BYTES == 10 * 1024 * 1024
RetryAttempts == 3

(***************************************************************************)
(* BaseChaimBinder.buildLambdaEnvironment.  An unset variable is "".       *)
(***************************************************************************)
DirectCredentials == [credentialType |-> "direct", apiKey |-> "key-1",
                      apiSecret |-> "secret-1", secretName |-> ""]
SecretsManagerCredentials == [credentialType |-> "secretsManager", apiKey |-> "",
                              apiSecret |-> "", secretName |-> "chaim/credentials"]

buildLambdaEnvironment(appId, failureMode, credentials) ==
    [APP_ID |-> appId,
     FAILURE_MODE |-> IF failureMode # "" THEN failureMode ELSE "BEST_EFFORT",
     CHAIM_API_BASE_URL |-> DEFAULT_API_BASE_URL,
     CHAIM_MAX_SNAPSHOT_BYTES |-> DEFAULT_MAX_SNAPSHOT_BYTES,
     SECRET_NAME |-> IF credentials.credentialType = "secretsManager"
                        THEN credentials.secretName ELSE "",
     API_KEY |-> IF credentials.credentialType = "secretsManager"
                    THEN "" ELSE credentials.apiKey,
     API_SECRET |-> IF credentials.credentialType = "secretsManager"
                       THEN "" ELSE credentials.apiSecret]

\* props.failureMode: unset, or one of the two enum values
FailureModeProps == {"", "BEST_EFFORT", "STRICT"}

\* props.credentials as the caller may write them: absent, built by one of
\* the two factories, lacking a field, of an unknown type, or an object that
\* holds the fields of both kinds
NoCredentials == [credentialType |-> "absent", apiKey |-> "", apiSecret |-> "",
                  secretName |-> ""]
BothCredentialsDirect == [credentialType |-> "direct", apiKey |-> "key-1",
                          apiSecret |-> "secret-1", secretName |-> "chaim/credentials"]
BothCredentialsSecret == [credentialType |-> "secretsManager", apiKey |-> "key-1",
                          apiSecret |-> "secret-1", secretName |-> "chaim/credentials"]

CredentialProps ==
    {NoCredentials, DirectCredentials, SecretsManagerCredentials,
     [DirectCredentials EXCEPT !.apiKey = ""],
     [DirectCredentials EXCEPT !.apiSecret = ""],
     [SecretsManagerCredentials EXCEPT !.secretName = ""],
     [DirectCredentials EXCEPT !.credentialType = "token"],
     BothCredentialsDirect, BothCredentialsSecret}

\* the rest of what a construction meets: the schema file, the table handle,
\* the file system under the asset directory
Props(credentials, failureMode, schema, table, io) ==
    [credentials |-> credentials, failureMode |-> failureMode,
     schema |-> schema, table |-> table, io |-> io]

DefaultProps == Props(DirectCredentials, "", "ok", "ok", "ok")

Faults ==
    {<<"missing", "ok", "ok">>, <<"invalid", "ok", "ok">>,
     <<"ok", "missing", "ok">>, <<"ok", "imported", "ok">>,
     <<"ok", "ok", "assetWriteFails">>}

PropsSet ==
    {Props(c, m, "ok", "ok", "ok") : c \in CredentialProps, m \in {"", "STRICT"}}
        \cup {Props(DirectCredentials, m, f[1], f[2], f[3]) :
                  m \in FailureModeProps, f \in Faults}

\* each returns the message of the error it throws, "" when it returns
validateCredentialsNever(props) == ""

readSchemaNever(props) == ""

validateCredentials(props) ==
    IF props.credentials.credentialType = "absent"
        THEN "Chaim SaaS credentials required"
    ELSE IF props.credentials.credentialType = "secretsManager"
        THEN IF props.credentials.secretName = ""
                 THEN "secretName is required for Secrets Manager credentials."
             ELSE ""
    ELSE IF props.credentials.credentialType = "direct"
        THEN IF props.credentials.apiKey = "" \/ props.credentials.apiSecret = ""
                 THEN "apiKey and apiSecret are required for direct credentials."
             ELSE ""
    ELSE "Unknown credential type: " \o props.credentials.credentialType

readSchema(props) ==
    IF props.schema = "missing" THEN "Schema file not found"
    ELSE IF props.schema = "invalid" THEN "Invalid schema"
    ELSE ""

validateTable(props) ==
    IF props.table = "missing" THEN "DynamoDB table is required"
    ELSE IF props.table = "imported"
        THEN "Table must be a concrete DynamoDB Table construct. Imported tables are not supported."
    ELSE ""

getChaimAssetDir(stackName, resourceId) ==
    "cdk.out/chaim/assets/" \o stackName \o "/" \o resourceId

createCustomResourceLegacy(resourceId) ==
    [EventId |-> resourceId, ContentHash |-> resourceId, Timestamp |-> resourceId]

createCustomResource(resourceId) == [ResourceId |-> resourceId]

\* the statements of the constructor that call out, in the order of the code
Statements ==
    <<"validateCredentials", "readSchema", "extractMetadata",
      "computeStableResourceKey", "generateResourceId",
      "writeLocalSnapshotToDisk", "writeSnapshotAsset", "deployIngestionResources">>

\* the statements completed when the n-th one throws
Before(n) == SubSeq(Statements, 1, n - 1)

Thrown(files, message, steps) ==
    [threw |-> TRUE, error |-> message, files |-> files, steps |-> steps]

\* the constructor from the allocation of the id on: the LOCAL snapshot, its
\* path, the asset directory, the custom resource and the hook's environment
binderOf(d, props, resourceId, now) ==
    LET resourceName == getResourceName(d)
        identity == Identity(d)
        localSnapshot == buildLocalSnapshot(d, resourceName, identity, resourceId, now)
    IN  [decl |-> d, resourceName |-> resourceName,
         entityName |-> getEntityName(d), identity |-> identity,
         resourceId |-> resourceId,
         path |-> getLocalSnapshotPath(localSnapshot.stackName,
                                       localSnapshot.datastoreType,
                                       localSnapshot.resourceId),
         snapshot |-> localSnapshot,
         assetDir |-> getChaimAssetDir(d.stackName, resourceId),
         properties |-> createCustomResource(resourceId),
         environment |-> buildLambdaEnvironment(d.appId, props.failureMode,
                                                props.credentials)]

\* the constructor of BaseChaimBinder, statement by statement; `files` is the
\* cache directory it finds, the result holds the one it leaves
constructor(d, props, files, now) ==
    IF validateCredentials(props) # ""
        THEN Thrown(files, validateCredentials(props), Before(1))
    ELSE IF readSchema(props) # "" THEN Thrown(files, readSchema(props), Before(2))
    ELSE IF validateTable(props) # ""
        THEN Thrown(files, validateTable(props), Before(3))
    ELSE
    LET cacheDir == getSnapshotDir(d.stackName, DatastoreType)
        resourceId == generateResourceId(getResourceName(d), getEntityName(d),
                                         Identity(d), cacheDir, files)
        binder == binderOf(d, props, resourceId, now)
        written == WriteFile(files, binder.path, binder.snapshot)
    IN  IF props.io = "assetWriteFails"
            THEN Thrown(written, "cannot write the asset directory", Before(7))
        ELSE [threw |-> FALSE, error |-> "", files |-> written, steps |-> Statements,
              binder |-> binder]

(***************************************************************************)
(* packages/cdk-lib: the BaseChaimBinder of the cdk-lib package.  It has   *)
(* no allocator: the id is {resourceName}__{entityName}, kept once as it   *)
(* is and once built from the normalized resource name.                    *)
(***************************************************************************)
PathSafe == "abcdefghijklmnopqrstuvwxyzABCDEFGHIJKLMNOPQRSTUVWXYZ0123456789_-."

\* os-cache-paths.normalizeResourceName: the name without the characters
\* that a file name cannot hold (those of an unresolved token among them)
RECURSIVE normalizeResourceName(_)
normalizeResourceName(name) ==
    IF name = "" THEN ""
    ELSE LET c == SubSeq(name, 1, 1)
         IN  (IF Includes(PathSafe, c) THEN c ELSE "_")
                 \o normalizeResourceName(SubSeq(name, 2, Len(name)))

getResourceNameLib(d) == IF d.tableName # "" THEN d.tableName ELSE "resource"

\* the LOCAL snapshot of the package: no identity block
buildLocalSnapshotLib(d, resourceName, resourceId, capturedAt) ==
    [kind |-> "snapshot", provider |-> "aws", accountId |-> AccountId,
     region |-> Region, stackName |-> d.stackName, datastoreType |-> DatastoreType,
     resourceName |-> resourceName, resourceId |-> resourceId, appId |-> d.appId,
     dataStore |-> [type |-> DatastoreType, tableName |-> d.tableName,
                    tableArn |-> "arn:aws:dynamodb:" \o d.tableName],
     capturedAt |-> capturedAt]

constructorLib(d, props, files, now) ==
    IF validateCredentials(props) # ""
        THEN Thrown(files, validateCredentials(props), Before(1))
    ELSE IF readSchema(props) # "" THEN Thrown(files, readSchema(props), Before(2))
    ELSE IF validateTable(props) # ""
        THEN Thrown(files, validateTable(props), Before(3))
    ELSE
    LET resourceName == getResourceNameLib(d)
        entityName == getEntityName(d)
        resourceId == BaseId(resourceName, entityName)
        normalizedResourceName == normalizeResourceName(resourceName)
        normalizedResourceId == BaseId(normalizedResourceName, entityName)
        localSnapshot == buildLocalSnapshotLib(d, normalizedResourceName,
                                               normalizedResourceId, now)
        filePath == getLocalSnapshotPath(localSnapshot.stackName,
                                         localSnapshot.datastoreType,
                                         localSnapshot.resourceId)
        binder == [decl |-> d, resourceName |-> resourceName,
                   entityName |-> entityName,
                   resourceId |-> resourceId, path |-> filePath,
                   snapshot |-> localSnapshot,
                   assetDir |-> getChaimAssetDir(d.stackName, resourceId),
                   properties |-> createCustomResource(resourceId),
                   environment |-> buildLambdaEnvironment(d.appId, props.failureMode,
                                                          props.credentials)]
    IN  [threw |-> FALSE, error |-> "", files |-> WriteFile(files, filePath, localSnapshot),
         steps |-> Statements, binder |-> binder]

NoAttempt == [made |-> FALSE, decl |-> DeclA, props |-> DefaultProps,
              threw |-> FALSE, error |-> "", steps |-> <<>>]

\* new Binder(scope, id, props)
New(d, props) ==
    /\ Len(built) < MaxConstructions
    /\ LET r == constructor(d, props, cache, Clock(Len(built) + 1))
       IN  /\ attempt' = [made |-> TRUE, decl |-> d, props |-> props,
                          threw |-> r.threw, error |-> r.error, steps |-> r.steps]
           /\ cache' = r.files
           /\ built' = IF r.threw THEN built ELSE Append(built, r.binder)
    /\ UNCHANGED <<procs, svcCall, hookVars>>

(***************************************************************************)
(* Two synthesis processes over one cache directory.  No lock is taken:    *)
(* the probe of generateResourceId and the write of the snapshot are two   *)
(* steps, and the other process may run between them.                      *)
(***************************************************************************)
Procs == {1, 2}

IdleProc == [pc |-> "idle", decl |-> DeclA, resourceId |-> "", fresh |-> FALSE,
             epoch |-> 0]

InFlight == {p \in Procs : procs[p].pc = "probed"}

\* constructor up to generateResourceId: the id the cache suggests now
ProbeStep(p, d) ==
    /\ procs[p].pc # "probed"
    /\ Len(built) + Cardinality(InFlight) < MaxConstructions
    /\ LET cacheDir == getSnapshotDir(d.stackName, DatastoreType)
           resourceId == generateResourceId(getResourceName(d), getEntityName(d),
                                            Identity(d), cacheDir, cache)
       IN  procs' = [procs EXCEPT ![p] =
                        [pc |-> "probed", decl |-> d, resourceId |-> resourceId,
                         fresh |-> ~existsSync(cache, FilePath(cacheDir, resourceId)),
                         epoch |-> Len(built)]]
    /\ UNCHANGED <<cache, built, attempt, svcCall, hookVars>>

\* constructor from buildLocalSnapshot on: the snapshot written under that id
WriteStep(p) ==
    /\ procs[p].pc = "probed"
    /\ LET binder == binderOf(procs[p].decl, DefaultProps, procs[p].resourceId,
                              Clock(Len(built) + 1))
       IN  /\ cache' = WriteFile(cache, binder.path, binder.snapshot)
           /\ built' = Append(built, binder)
    /\ procs' = [procs EXCEPT ![p].pc = "written"]
    /\ UNCHANGED <<attempt, svcCall, hookVars>>

\* a construction with well-formed props
Construct(d) == New(d, DefaultProps)

\* new Binder(scope, id, props) of the cdk-lib package, well-formed props
ConstructLib(d) ==
    /\ Len(built) < MaxConstructions
    /\ LET r == constructorLib(d, DefaultProps, cache, Clock(Len(built) + 1))
       IN  /\ attempt' = [made |-> TRUE, decl |-> d, props |-> DefaultProps,
                          threw |-> r.threw, error |-> r.error, steps |-> r.steps]
           /\ cache' = r.files
           /\ built' = IF r.threw THEN built ELSE Append(built, r.binder)
    /\ UNCHANGED <<procs, svcCall, hookVars>>

\* what the cache directory may hold before the first synthesis: nothing, or
\* files under the base name and the first suffix that are not snapshots with
\* an identity
LegacyPath == FilePath(getSnapshotDir("S", DatastoreType), BaseId("T", "E"))
LegacyPath2 ==
    FilePath(getSnapshotDir("S", DatastoreType), BaseId("T", "E") \o "__2")

EmptyCache == [p \in {} |-> NoIdentityFile]

InitCaches ==
    {EmptyCache,
     [p \in {LegacyPath} |-> NoIdentityFile],
     [p \in {LegacyPath} |-> UnreadableFile],
     [p \in {LegacyPath, LegacyPath2} |->
         IF p = LegacyPath THEN KeylessFile ELSE UnreadableFile]}

Envs == {buildLambdaEnvironment("a", m, c) :
            m \in FailureModeProps, c \in {DirectCredentials, SecretsManagerCredentials}}

(***************************************************************************)
(* The staged ./snapshot.json.  `chars` is the length of the text as the   *)
(* handler reads it (UTF-16 code units), `bytes` its UTF-8 size: a         *)
(* character outside ASCII takes one unit of the first and two or three    *)
(* of the second.                                                          *)
(***************************************************************************)
Quoted(text) == "\"" \o text \o "\""
Member(key, json) == Quoted(key) \o ":" \o json

stringifyIdentity(identity) ==
    "{" \o Member("appId", Quoted(identity.appId))
        \o "," \o Member("stackName", Quoted(identity.stackName))
        \o "," \o Member("datastoreType", Quoted(identity.datastoreType))
        \o "," \o Member("entityName", Quoted(identity.entityName))
        \o "," \o Member("stableResourceKey", Quoted(identity.stableResourceKey))
        \o "}"

stringifyDataStore(dataStore) ==
    "{" \o Member("type", Quoted(dataStore.type))
        \o "," \o Member("tableName", Quoted(dataStore.tableName))
        \o "," \o Member("tableArn", Quoted(dataStore.tableArn))
        \o "}"

stringifyUpTo(snapshot) ==
    "{" \o Member("provider", Quoted(snapshot.provider))
        \o "," \o Member("accountId", Quoted(snapshot.accountId))
        \o "," \o Member("region", Quoted(snapshot.region))
        \o "," \o Member("stackName", Quoted(snapshot.stackName))
        \o "," \o Member("datastoreType", Quoted(snapshot.datastoreType))
        \o "," \o Member("resourceName", Quoted(snapshot.resourceName))
        \o "," \o Member("resourceId", Quoted(snapshot.resourceId))
        \o "," \o Member("identity", stringifyIdentity(snapshot.identity))
        \o "," \o Member("appId", Quoted(snapshot.appId))
        \o "," \o Member("dataStore", stringifyDataStore(snapshot.dataStore))

stringifyWithoutCapturedAt(snapshot) == stringifyUpTo(snapshot) \o "}"

\* JSON.stringify(snapshot, null, 2): every member in the order of the object
stringify(snapshot) ==
    stringifyUpTo(snapshot)
        \o "," \o Member("capturedAt", Quoted(snapshot.capturedAt)) \o "}"

SnapshotFile(snapshot, chars, bytes) ==
    [kind |-> "snapshot", content |-> snapshot, text |-> stringify(snapshot),
     chars |-> chars, bytes |-> bytes]

MissingFile == [kind |-> "missing"]

\* sizes around the limit: under it, at it in both measures, at it in
\* characters but over it in bytes, over it in both
SizeShapes ==
    {<<2048, 2048>>,
     <<DEFAULT_MAX_SNAPSHOT_BYTES, DEFAULT_MAX_SNAPSHOT_BYTES>>,
     <<DEFAULT_MAX_SNAPSHOT_BYTES, DEFAULT_MAX_SNAPSHOT_BYTES + 2>>,
     <<DEFAULT_MAX_SNAPSHOT_BYTES + 1, DEFAULT_MAX_SNAPSHOT_BYTES + 1>>}

(***************************************************************************)
(* lambda-handler/handler.js                                               *)
(***************************************************************************)
Now == "now"
UUIDs == {"uuid-1", "uuid-2"}
RequestTypes == {"Create", "Update", "Delete"}

\* what the network and the remote service may answer to one request
NetOutcomes == {"ok", "badBody", "http4xx", "http5xx", "timeout", "netError"}
\* what the secret store may answer
SecretOutcomes == {"ok", "sdkError", "empty", "malformed"}

NoFields == [f \in {} |-> ""]

buildResponseEchoing(eventId, status, action, timestamp, contentHash, errorMessage) ==
    [PhysicalResourceId |-> eventId,
     Data |-> [EventId |-> eventId, IngestStatus |-> status, Action |-> action,
               Timestamp |-> timestamp, Snapshot |-> contentHash]]

buildResponse(eventId, status, action, timestamp, contentHash, errorMessage) ==
    [PhysicalResourceId |-> eventId,
     Data |-> [EventId |-> eventId, IngestStatus |-> status, Action |-> action,
               Timestamp |-> timestamp]
              @@ (IF contentHash # "" THEN [ContentHash |-> contentHash] ELSE NoFields)
              @@ (IF errorMessage # "" THEN [Error |-> errorMessage] ELSE NoFields)]

getCredentials(e, secret) ==
    IF e.SECRET_NAME # ""
        THEN IF secret = "sdkError"
                 THEN [ok |-> FALSE, error |-> "GetSecretValue failed"]
             ELSE IF secret = "empty"
                 THEN [ok |-> FALSE, error |-> "Secret value is empty"]
             ELSE IF secret = "malformed"
                 THEN [ok |-> FALSE,
                       error |-> "Secret must contain apiKey and apiSecret fields"]
             ELSE [ok |-> TRUE, apiKey |-> "key-1", apiSecret |-> "secret-1"]
    ELSE IF e.API_KEY = "" \/ e.API_SECRET = ""
        THEN [ok |-> FALSE,
              error |-> "Missing credentials: provide SECRET_NAME or API_KEY/API_SECRET"]
    ELSE [ok |-> TRUE, apiKey |-> e.API_KEY, apiSecret |-> e.API_SECRET]

\* httpRequest: one request is written; the promise resolves on a 2xx status
\* and rejects on any other status, on a socket error and on the timeout
ResolvesAlways(outcome) == TRUE

Resolves(outcome) == outcome \in {"ok", "badBody"}

\* JSON.parse(responseText) of the callers, and the uploadUrl taken from it
Parses(outcome) == outcome = "ok"

httpRequest(name, method, url, payload, apiSecret, outcome) ==
    [name |-> name, method |-> method, url |-> url, payload |-> payload,
     signed |-> apiSecret # "", attempts |-> 1, outcome |-> outcome]

postUploadUrl(apiBaseUrl, creds, payload, outcome) ==
    httpRequest("upload-url", "POST", apiBaseUrl \o "/ingest/upload-url",
                payload, creds.apiSecret, outcome)

uploadToS3(presignedUrl, file, outcome) ==
    httpRequest("upload", "PUT", presignedUrl,
                [text |-> file.text, chars |-> file.chars, bytes |-> file.bytes],
                "", outcome)

postSnapshotRef(apiBaseUrl, creds, payload, outcome) ==
    httpRequest("snapshot-ref", "POST", apiBaseUrl \o "/ingest/snapshot-ref",
                payload, creds.apiSecret, outcome)

Undefined == "undefined"
Field(record, f) == IF f \in DOMAIN record THEN record[f] ELSE Undefined

UploadUrlPayload(snapshotPayload, eventId, contentHash) ==
    [appId |-> snapshotPayload.appId, eventId |-> eventId,
     contentHash |-> contentHash]

DeletePayloadBaseId(snapshotPayload, eventId) ==
    [action |-> "DELETE", appId |-> snapshotPayload.appId, eventId |-> eventId,
     resourceId |-> BaseId(snapshotPayload.resourceName,
                           snapshotPayload.identity.entityName),
     stackName |-> snapshotPayload.stackName,
     datastoreType |-> snapshotPayload.datastoreType]

DeletePayload(snapshotPayload, eventId) ==
    [action |-> "DELETE", appId |-> snapshotPayload.appId, eventId |-> eventId,
     resourceId |-> snapshotPayload.resourceId,
     stackName |-> snapshotPayload.stackName,
     datastoreType |-> snapshotPayload.datastoreType]

UpsertPayload(snapshotPayload, eventId, contentHash) ==
    [action |-> "UPSERT", appId |-> snapshotPayload.appId, eventId |-> eventId,
     contentHash |-> contentHash,
     datastoreType |-> snapshotPayload.datastoreType,
     datastoreArn |-> Field(snapshotPayload.dataStore, "arn"),
     resourceId |-> snapshotPayload.resourceId,
     stackName |-> snapshotPayload.stackName]

\* the catch block of the handler: what the invocation ends with
catchAlwaysThrows(failureMode, requestType, eventId, contentHash, message) ==
    [kind |-> "thrown", error |-> message]

catchNeverThrows(failureMode, requestType, eventId, contentHash, message) ==
    [kind |-> "returned",
     response |-> buildResponse(eventId, "FAILED",
                      IF requestType = "Delete" THEN "DELETE" ELSE "UPSERT",
                      Now, contentHash, message)]

catchBlock(failureMode, requestType, eventId, contentHash, message) ==
    IF failureMode = "STRICT"
        THEN [kind |-> "thrown", error |-> message]
    ELSE [kind |-> "returned",
          response |-> buildResponse(eventId, "FAILED",
                           IF requestType = "Delete" THEN "DELETE" ELSE "UPSERT",
                           Now, contentHash, message)]

failureModeOf(e) == IF e.FAILURE_MODE # "" THEN e.FAILURE_MODE ELSE "BEST_EFFORT"

maxSnapshotBytesOf(e) == e.CHAIM_MAX_SNAPSHOT_BYTES

\* snapshotBytes.length > maxSnapshotBytes
ExceedsLimit(file, maxSnapshotBytes) == file.chars > maxSnapshotBytes

sha256(file) == "sha256:" \o file.text

(***************************************************************************)
(* The orchestrator and one invocation of the handler, await by await.     *)
(***************************************************************************)
NoOp == [RequestType |-> "none", RequestId |-> "none"]
NoOutcome == [kind |-> "none"]
NotDeployed == [kind |-> "none"]

IdleInvocation ==
    [pc |-> "idle", event |-> NoOp, eventId |-> "", contentHash |-> "",
     file |-> NotDeployed, apiSecret |-> "", calls |-> <<>>,
     failure |-> "none", outcome |-> NoOutcome]

Finished == last.pc \in {"idle", "done"}

\* the custom resource after the orchestrator has received the outcome
CrAfter(cr, requestType, kind) ==
    IF kind = "returned"
        THEN IF requestType = "Delete" THEN "absent" ELSE "present"
    ELSE cr

\* the PhysicalResourceId the orchestrator records from a returned response
PhysAfter(ids, l) ==
    IF l.pc = "done" /\ l.outcome.kind = "returned" /\ l.event.RequestType # "Delete"
        THEN ids \cup {l.outcome.response.PhysicalResourceId}
    ELSE ids

Done(l, failure, outcome) ==
    [l EXCEPT !.pc = "done", !.failure = failure, !.outcome = outcome]

Caught(l, stage, message) ==
    Done(l, stage, catchBlock(failureModeOf(env), l.event.RequestType,
                              l.eventId, l.contentHash, message))

EventIdsOf(calls) ==
    {calls[k].payload.eventId : k \in {i \in 1..Len(calls) : calls[i].name # "upload"}}

RefsOf(calls) ==
    {<<calls[k].payload.action, calls[k].payload.resourceId>> :
        k \in {i \in 1..Len(calls) : calls[i].name = "snapshot-ref"}}

\* exports.handler up to its first await: the event id, the staged snapshot
Begin(event, uuid) ==
    LET l0 == [IdleInvocation EXCEPT !.pc = "getCredentials", !.event = event,
                                     !.eventId = uuid, !.file = bundle]
    IN  IF bundle.kind # "snapshot"
            THEN LET l1 == Caught(l0, "read", "cannot read ./snapshot.json")
                 IN  /\ last' = l1
                     /\ crState' = CrAfter(crState, event.RequestType, l1.outcome.kind)
        ELSE /\ last' = [l0 EXCEPT !.contentHash = sha256(bundle)]
             /\ crState' = crState

OtherRequestId(id) == IF id = "req-1" THEN "req-2" ELSE "req-1"

\* the orchestrator starts a lifecycle operation and invokes the hook
NewOperation(requestType, uuid) ==
    /\ Finished
    /\ bundle # NotDeployed
    /\ IF requestType = "Create" THEN crState = "absent" ELSE crState = "present"
    /\ LET event == [RequestType |-> requestType,
                     RequestId |-> OtherRequestId(op.RequestId)]
       IN  /\ op' = event
           /\ Begin(event, uuid)
    /\ opEventIds' = {}
    /\ physicalIds' = PhysAfter(IF requestType = "Create" THEN {} ELSE physicalIds,
                                last')
    /\ UNCHANGED <<cache, built, attempt, procs, svcCall, env, bundle, sentRefs>>

\* the orchestrator delivers the event of the operation in progress again
Retry(uuid) ==
    /\ Finished
    /\ op # NoOp
    /\ Begin(op, uuid)
    /\ physicalIds' = PhysAfter(physicalIds, last')
    /\ UNCHANGED <<cache, built, attempt, procs, svcCall, env, bundle, op, opEventIds, sentRefs>>

SecretChoices(e) == IF e.SECRET_NAME # "" THEN SecretOutcomes ELSE {"ok"}

\* await getCredentials(), then the Delete branch or the size validation
GetCredentials(secret) ==
    /\ last.pc = "getCredentials"
    /\ LET creds == getCredentials(env, secret)
           l1 == IF ~creds.ok
                     THEN Caught(last, "credentials", creds.error)
                 ELSE IF last.event.RequestType = "Delete"
                     THEN [last EXCEPT !.pc = "notify", !.apiSecret = creds.apiSecret]
                 ELSE IF ExceedsLimit(last.file, maxSnapshotBytesOf(env))
                     THEN Caught(last, "size", "Snapshot size exceeds maximum allowed")
                 ELSE [last EXCEPT !.pc = "presign", !.apiSecret = creds.apiSecret]
       IN  /\ last' = l1
           /\ crState' = CrAfter(crState, last.event.RequestType, l1.outcome.kind)
    /\ physicalIds' = PhysAfter(physicalIds, last')
    /\ UNCHANGED <<cache, built, attempt, procs, svcCall, env, bundle, op, opEventIds, sentRefs>>

Issue(l, call) == [l EXCEPT !.calls = Append(l.calls, call)]

\* Step 1: await postUploadUrl(...)
PostUploadUrl(outcome) ==
    /\ last.pc = "presign"
    /\ LET call == postUploadUrl(env.CHAIM_API_BASE_URL, last,
                       UploadUrlPayload(last.file.content, last.eventId,
                                        last.contentHash), outcome)
           l0 == Issue(last, call)
           l1 == IF Resolves(outcome) /\ Parses(outcome)
                     THEN [l0 EXCEPT !.pc = "upload"]
                 ELSE Caught(l0, "presign", outcome)
       IN  /\ last' = l1
           /\ crState' = CrAfter(crState, last.event.RequestType, l1.outcome.kind)
           /\ opEventIds' = opEventIds \cup EventIdsOf(<<call>>)
    /\ physicalIds' = PhysAfter(physicalIds, last')
    /\ UNCHANGED <<cache, built, attempt, procs, svcCall, env, bundle, op, sentRefs>>

\* Step 2: await uploadToS3(uploadUrl, snapshotBytes)
UploadToS3(outcome) ==
    /\ last.pc = "upload"
    /\ LET call == uploadToS3("https://s3.presigned/" \o last.contentHash,
                              last.file, outcome)
           l0 == Issue(last, call)
           l1 == IF Resolves(outcome)
                     THEN [l0 EXCEPT !.pc = "commit"]
                 ELSE Caught(l0, "upload", outcome)
       IN  /\ last' = l1
           /\ crState' = CrAfter(crState, last.event.RequestType, l1.outcome.kind)
    /\ physicalIds' = PhysAfter(physicalIds, last')
    /\ UNCHANGED <<cache, built, attempt, procs, svcCall, env, bundle, op, opEventIds, sentRefs>>

\* Step 3, and the Delete flow: await postSnapshotRef(...), then the response
PostSnapshotRef(outcome) ==
    /\ last.pc \in {"commit", "notify"}
    /\ LET isDelete == last.pc = "notify"
           payload == IF isDelete
                          THEN DeletePayload(last.file.content, last.eventId)
                      ELSE UpsertPayload(last.file.content, last.eventId,
                                         last.contentHash)
           call == postSnapshotRef(env.CHAIM_API_BASE_URL, last, payload, outcome)
           l0 == Issue(last, call)
           response == IF isDelete
                           THEN buildResponse(last.eventId, "SUCCESS", "DELETE",
                                    last.file.content.capturedAt, "", "")
                       ELSE buildResponse(last.eventId, "SUCCESS", "UPSERT",
                                last.file.content.capturedAt, last.contentHash, "")
           l1 == IF Resolves(outcome) /\ Parses(outcome)
                     THEN Done(l0, "none", [kind |-> "returned", response |-> response])
                 ELSE Caught(l0, "commit", outcome)
       IN  /\ last' = l1
           /\ crState' = CrAfter(crState, last.event.RequestType, l1.outcome.kind)
           /\ opEventIds' = opEventIds \cup EventIdsOf(<<call>>)
           /\ sentRefs' = sentRefs \cup RefsOf(<<call>>)
    /\ physicalIds' = PhysAfter(physicalIds, last')
    /\ UNCHANGED <<cache, built, attempt, procs, svcCall, env, bundle, op>>

(***************************************************************************)
(* The timers.  req.setTimeout(ms) arms the inactivity timer of the socket: *)
(* it runs out after ms without traffic and starts again with every chunk  *)
(* received, so a response that keeps arriving never lets it run out       *)
(* and never reaches 'end'.  The call to the secret store is awaited with  *)
(* no timer of the handler.  The Lambda itself is given five minutes.      *)
(***************************************************************************)
Awaits(l, e) ==
    \/ l.pc \in {"presign", "upload", "commit", "notify"}
    \/ l.pc = "getCredentials" /\ e.SECRET_NAME # ""

\* an awaited call whose promise is neither resolved nor rejected
Block ==
    /\ Awaits(last, env)
    /\ last' = [last EXCEPT !.pc = "blocked"]
    /\ UNCHANGED <<cache, built, attempt, procs, svcCall, env, bundle, crState, op, opEventIds,
                   sentRefs, physicalIds>>

\* the runtime ends the invocation: no response, no error of the handler
LambdaTimeout ==
    /\ last.pc = "blocked"
    /\ last' = Done(last, "lambdaTimeout", [kind |-> "timedOut"])
    /\ UNCHANGED <<cache, built, attempt, procs, svcCall, env, bundle, crState, op, opEventIds,
                   sentRefs, physicalIds>>

HookNext ==
    \/ \E t \in RequestTypes, u \in UUIDs : NewOperation(t, u)
    \/ \E u \in UUIDs : Retry(u)
    \/ \E secret \in SecretChoices(env) : GetCredentials(secret)
    \/ \E o \in NetOutcomes : PostUploadUrl(o)
    \/ \E o \in NetOutcomes : UploadToS3(o)
    \/ \E o \in NetOutcomes : PostSnapshotRef(o)

(***************************************************************************)
(* Deployment: the Lambda of the hooked binding gets the bundle staged by  *)
(* the latest construction of that binding.                                *)
(***************************************************************************)
HookDecl == DeclA
HookDecls == {DeclA, DeclB}

LatestOf(d) ==
    LET ks == {k \in 1..Len(built) : built[k].decl = d}
    IN  CHOOSE k \in ks : \A j \in ks : j <= k

Deploy ==
    /\ \E k \in 1..Len(built) : built[k].decl = HookDecl
    /\ bundle' = SnapshotFile(built[LatestOf(HookDecl)].snapshot, 2048, 2048)
    /\ bundle' # bundle
    /\ UNCHANGED <<cache, built, attempt, procs, svcCall, env, crState, op, opEventIds, sentRefs,
                 physicalIds, last>>

(***************************************************************************)
(* services/schema-validator.  A schema is the parsed .bprint file; a key  *)
(* that is absent (or empty, which the checks do not tell apart) is "".    *)
(***************************************************************************)
FieldTypes == {"string", "number", "boolean", "timestamp"}

\* typeof defaultValue; "absent" stands for undefined
validateDefaultValue(defaultValue, fieldType) ==
    IF fieldType = "string" THEN defaultValue = "string"
    ELSE IF fieldType = "number" THEN defaultValue = "number"
    ELSE IF fieldType = "boolean" THEN defaultValue = "boolean"
    ELSE IF fieldType = "timestamp" THEN defaultValue = "string"
    ELSE FALSE

\* the loop of validateFields from the k-th field on; "" when it ends
RECURSIVE validateFieldsFrom(_, _, _)
validateFieldsFrom(fields, k, fieldNames) ==
    IF k > Len(fields) THEN ""
    ELSE LET field == fields[k]
         IN  IF field.name = "" THEN "Field must include name as a string"
             ELSE IF field.type \notin FieldTypes
                 THEN "Field '" \o field.name \o "' must have a valid type"
             ELSE IF field.name \in fieldNames
                 THEN "Duplicate field name: " \o field.name
             ELSE IF field.enum = "empty"
                 THEN "Field '" \o field.name \o "' enum must be a non-empty array"
             ELSE IF field.default # "absent"
                         /\ ~validateDefaultValue(field.default, field.type)
                 THEN "Field '" \o field.name
                          \o "' default value type does not match field type"
             ELSE validateFieldsFrom(fields, k + 1, fieldNames \cup {field.name})

validateFields(fields) == validateFieldsFrom(fields, 1, {})

validatePrimaryKey(primaryKey) ==
    IF primaryKey.partitionKey = "" \/ ~primaryKey.isString
        THEN "PrimaryKey must include partitionKey as a string"
    ELSE ""

validateEntity(entity) ==
    IF ~entity.primaryKey.present THEN "Entity must include primaryKey field"
    ELSE IF entity.fields = <<>>
        THEN "Entity must include fields array with at least one field"
    ELSE IF validatePrimaryKey(entity.primaryKey) # ""
        THEN validatePrimaryKey(entity.primaryKey)
    ELSE validateFields(entity.fields)

\* the message of the error thrown, "" when the schema is returned
validateSchema(schema) ==
    IF schema.schemaVersion = "" THEN "Schema must include schemaVersion field"
    ELSE IF schema.namespace = "" THEN "Schema must include namespace field"
    ELSE IF schema.description = "" THEN "Schema must include description field"
    ELSE IF ~schema.entity.present THEN "Schema must include entity field"
    ELSE validateEntity(schema.entity)

\* the schemas the validator is run on
FieldShape(name, type, enum, default) ==
    [name |-> name, type |-> type, enum |-> enum, default |-> default]

\* well-formed fields, and fields with one or two things wrong
FieldShapes ==
    {FieldShape("f", "string", "absent", "absent"),
     FieldShape("g", "number", "absent", "number"),
     FieldShape("", "string", "absent", "absent"),
     FieldShape("f", "blob", "absent", "absent"),
     FieldShape("f", "string", "empty", "absent"),
     FieldShape("g", "string", "absent", "number"),
     FieldShape("g", "timestamp", "empty", "number"),
     FieldShape("", "blob", "empty", "number")}

FieldLists == UNION {[1..n -> FieldShapes] : n \in 0..MaxFields}

PrimaryKeys ==
    {[present |-> FALSE, partitionKey |-> "", isString |-> FALSE],
     [present |-> TRUE, partitionKey |-> "", isString |-> TRUE],
     [present |-> TRUE, partitionKey |-> "7", isString |-> FALSE],
     [present |-> TRUE, partitionKey |-> "pk", isString |-> TRUE]}

NoEntity ==
    [present |-> FALSE,
     primaryKey |-> [present |-> FALSE, partitionKey |-> "", isString |-> FALSE],
     fields |-> <<>>]

Entities ==
    {[present |-> TRUE, primaryKey |-> k, fields |-> fs] :
        k \in PrimaryKeys, fs \in FieldLists} \cup {NoEntity}

TopLevels ==
    {<<"1.0", "ns", "d">>, <<"", "ns", "d">>, <<"1.0", "", "d">>, <<"1.0", "ns", "">>}

Schemas ==
    {[schemaVersion |-> t[1], namespace |-> t[2], description |-> t[3],
      entity |-> e] : t \in TopLevels, e \in Entities}

NoCall == [fn |-> "none"]

\* a call about to be made with that argument
Pending(fn, arg) == [fn |-> fn, arg |-> arg, done |-> FALSE]

\* SchemaValidator.validateSchema(schema)
ValidateSchema ==
    /\ svcCall.fn = "validateSchema"
    /\ ~svcCall.done
    /\ svcCall' = [fn |-> "validateSchema", arg |-> svcCall.arg, done |-> TRUE,
                   error |-> validateSchema(svcCall.arg)]
    /\ UNCHANGED <<cache, built, attempt, procs, hookVars>>

(***************************************************************************)
(* ChaimDynamoDBBinder: extraction of the metadata from the CloudFormation *)
(* table resource.  A key schema is the list of its {attributeName,        *)
(* keyType} entries; an index is its name and its own key schema.          *)
(***************************************************************************)
\* the loops over a key schema: the attribute of the last entry of that
\* type, `none` when there is no such entry
LastOf(keySchema, keyType, none) ==
    LET ks == {k \in 1..Len(keySchema) : keySchema[k].keyType = keyType}
    IN  IF ks = {} THEN none
        ELSE keySchema[CHOOSE k \in ks : \A j \in ks : j <= k].attributeName

extractKeySchema(keySchema) ==
    IF keySchema = <<>>
        THEN [threw |-> TRUE, error |-> "Table must have a key schema"]
    ELSE LET partitionKey == LastOf(keySchema, "HASH", Undefined)
             sortKey == LastOf(keySchema, "RANGE", Undefined)
         IN  IF partitionKey = Undefined \/ partitionKey = ""
                 THEN [threw |-> TRUE,
                       error |-> "Cannot extract partition key from table key schema"]
             ELSE [threw |-> FALSE, error |-> "", partitionKey |-> partitionKey,
                   sortKey |-> sortKey]

\* <<>> stands for the undefined returned for a table without such indexes
extractGSIs(gsis) ==
    [k \in 1..Len(gsis) |->
        [indexName |-> gsis[k].indexName,
         partitionKey |-> LastOf(gsis[k].keySchema, "HASH", ""),
         sortKey |-> LastOf(gsis[k].keySchema, "RANGE", Undefined),
         projectionType |-> "ALL"]]

extractLSIs(lsis) ==
    [k \in 1..Len(lsis) |->
        [indexName |-> lsis[k].indexName,
         sortKey |-> LastOf(lsis[k].keySchema, "RANGE", ""),
         projectionType |-> "ALL"]]

\* extractMetadata after validateTable and getCfnTable
extractMetadata(cfnTable) ==
    LET keys == extractKeySchema(cfnTable.keySchema)
    IN  IF keys.threw THEN [threw |-> TRUE, error |-> keys.error]
        ELSE [threw |-> FALSE, error |-> "",
              metadata |->
                  [type |-> DatastoreType, tableName |-> cfnTable.tableName,
                   tableArn |-> "arn:aws:dynamodb:" \o cfnTable.tableName,
                   partitionKey |-> keys.partitionKey, sortKey |-> keys.sortKey,
                   globalSecondaryIndexes |-> extractGSIs(cfnTable.globalSecondaryIndexes),
                   localSecondaryIndexes |-> extractLSIs(cfnTable.localSecondaryIndexes)]]

\* the tables the extractor is run on
KeyEntries ==
    {[attributeName |-> "a", keyType |-> "HASH"],
     [attributeName |-> "b", keyType |-> "RANGE"],
     [attributeName |-> "", keyType |-> "HASH"]}

KeySchemas == UNION {[1..n -> KeyEntries] : n \in 0..MaxKeys}

Indexes == {<<>>} \cup {<<[indexName |-> "i", keySchema |-> ks]>> : ks \in KeySchemas}

CfnTables ==
    {[tableName |-> "T", keySchema |-> ks, globalSecondaryIndexes |-> gsis,
      localSecondaryIndexes |-> lsis] :
        ks \in KeySchemas, gsis \in Indexes, lsis \in Indexes}

\* ChaimDynamoDBBinder.extractMetadata()
ExtractMetadata ==
    /\ svcCall.fn = "extractMetadata"
    /\ ~svcCall.done
    /\ LET r == extractMetadata(svcCall.arg)
       IN  svcCall' = [fn |-> "extractMetadata", arg |-> svcCall.arg, done |-> TRUE,
                       result |-> r]
    /\ UNCHANGED <<cache, built, attempt, procs, hookVars>>

(***************************************************************************)
(* Specifications.                                                         *)
(***************************************************************************)
HookIdle ==
    /\ crState = "absent"
    /\ op = NoOp
    /\ opEventIds = {}
    /\ sentRefs = {}
    /\ physicalIds = {}
    /\ last = IdleInvocation

DefaultEnv == buildLambdaEnvironment("a", "", DirectCredentials)

\* synthesis alone: binders constructed over the cache directory
SynthInit ==
    /\ cache \in InitCaches
    /\ built = <<>>
    /\ attempt = NoAttempt
    /\ procs = [p \in Procs |-> IdleProc]
    /\ svcCall = NoCall
    /\ env = DefaultEnv
    /\ bundle = NotDeployed
    /\ HookIdle

SynthNext == \E d \in Decls : Construct(d)

SynthSpec == SynthInit /\ [][SynthNext]_vars

\* the constructor alone, over every shape of props
BinderInit ==
    /\ cache = EmptyCache
    /\ built = <<>>
    /\ attempt = NoAttempt
    /\ procs = [p \in Procs |-> IdleProc]
    /\ svcCall = NoCall
    /\ env = DefaultEnv
    /\ bundle = NotDeployed
    /\ HookIdle

BinderNext == \E props \in PropsSet : New(HookDecl, props)

BinderSpec == BinderInit /\ [][BinderNext]_vars

\* two concurrent synthesis processes over one cache directory
RaceDecls == {DeclA, DeclB, DeclM}

RaceInit ==
    /\ cache \in InitCaches
    /\ built = <<>>
    /\ attempt = NoAttempt
    /\ procs = [p \in Procs |-> IdleProc]
    /\ svcCall = NoCall
    /\ env = DefaultEnv
    /\ bundle = NotDeployed
    /\ HookIdle

RaceNext ==
    \/ \E p \in Procs, d \in RaceDecls : ProbeStep(p, d)
    \/ \E p \in Procs : WriteStep(p)

RaceSpec == RaceInit /\ [][RaceNext]_vars

\* the hook alone: a deployed bundle, the orchestrator's events
HookSnapshot ==
    buildLocalSnapshot(HookDecl, getResourceName(HookDecl), Identity(HookDecl),
                       BaseId(getResourceName(HookDecl), getEntityName(HookDecl)),
                       Clock(1))

Bundles ==
    {SnapshotFile(HookSnapshot, shape[1], shape[2]) : shape \in SizeShapes}
        \cup {MissingFile}

HookInit ==
    /\ cache = EmptyCache
    /\ built = <<>>
    /\ attempt = NoAttempt
    /\ procs = [p \in Procs |-> IdleProc]
    /\ svcCall = NoCall
    /\ env \in Envs
    /\ bundle \in Bundles
    /\ HookIdle

HookSpec == HookInit /\ [][HookNext]_vars

\* the hook with the timers of its calls and of its runtime
TimedNext ==
    \/ HookNext
    \/ Block
    \/ LambdaTimeout

TimedSpec == HookInit /\ [][TimedNext]_vars

\* the validator alone, over schemas with up to MaxFields fields
SchemaInit ==
    /\ cache = EmptyCache
    /\ built = <<>>
    /\ attempt = NoAttempt
    /\ procs = [p \in Procs |-> IdleProc]
    /\ svcCall \in {Pending("validateSchema", schema) : schema \in Schemas}
    /\ env = DefaultEnv
    /\ bundle = NotDeployed
    /\ HookIdle

SchemaNext == ValidateSchema

SchemaSpec == SchemaInit /\ [][SchemaNext]_vars

\* the metadata extractor alone, over tables with up to MaxKeys key entries
MetadataInit ==
    /\ cache = EmptyCache
    /\ built = <<>>
    /\ attempt = NoAttempt
    /\ procs = [p \in Procs |-> IdleProc]
    /\ svcCall \in {Pending("extractMetadata", t) : t \in CfnTables}
    /\ env = DefaultEnv
    /\ bundle = NotDeployed
    /\ HookIdle

MetadataNext == ExtractMetadata

MetadataSpec == MetadataInit /\ [][MetadataNext]_vars

\* synthesis with the binder of the cdk-lib package
LibInit ==
    /\ cache = EmptyCache
    /\ built = <<>>
    /\ attempt = NoAttempt
    /\ procs = [p \in Procs |-> IdleProc]
    /\ svcCall = NoCall
    /\ env = DefaultEnv
    /\ bundle = NotDeployed
    /\ HookIdle

LibNext == \E d \in Decls : ConstructLib(d)

LibSpec == LibInit /\ [][LibNext]_vars

\* synthesis, deployment and the hook of one binding together
Init ==
    /\ cache = EmptyCache
    /\ built = <<>>
    /\ attempt = NoAttempt
    /\ procs = [p \in Procs |-> IdleProc]
    /\ svcCall = NoCall
    /\ env = DefaultEnv
    /\ bundle = NotDeployed
    /\ HookIdle

\* the answers of the network that the lifecycle of a binding is run over
LifecycleOutcomes == {"ok", "http5xx"}

Next ==
    \/ \E d \in HookDecls : Construct(d)
    \/ Deploy
    \/ \E t \in RequestTypes, u \in UUIDs : NewOperation(t, u)
    \/ \E u \in UUIDs : Retry(u)
    \/ \E secret \in SecretChoices(env) : GetCredentials(secret)
    \/ \E o \in LifecycleOutcomes : PostUploadUrl(o)
    \/ \E o \in LifecycleOutcomes : UploadToS3(o)
    \/ \E o \in LifecycleOutcomes : PostSnapshotRef(o)

Spec == Init /\ [][Next]_vars

(***************************************************************************)
(* Claims about the allocator and the snapshot cache (under SynthSpec).    *)
(***************************************************************************)
HasSuffix(b) == b.resourceId # BaseId(b.resourceName, b.entityName)

SameParams(b1, b2) ==
    /\ b1.resourceName = b2.resourceName
    /\ b1.entityName = b2.entityName
    /\ b1.identity = b2.identity

\* same names and the same identity but for the stable resource key
DifferOnlyInKey(b1, b2) ==
    /\ b1.resourceName = b2.resourceName
    /\ b1.entityName = b2.entityName
    /\ b1.identity.appId = b2.identity.appId
    /\ b1.identity.stackName = b2.identity.stackName
    /\ b1.identity.datastoreType = b2.identity.datastoreType
    /\ b1.identity.entityName = b2.identity.entityName
    /\ b1.identity.stableResourceKey # b2.identity.stableResourceKey

\* C4: two constructions that wrote the same snapshot path have equal
\* StableIdentity: a snapshot file is overwritten only by a binding whose
\* identity equals that of the binding that wrote it.
C4_SamePathSameIdentity ==
    \A i, j \in 1..Len(built) :
        built[i].path = built[j].path => built[i].identity = built[j].identity

\* C5: once a binding has been allocated an id and written its snapshot,
\* every later allocation with the same {resourceName, entityName, identity}
\* returns the same id.
C5_StableUnderResynthesis ==
    \A i, j \in 1..Len(built) :
        (i < j /\ SameParams(built[i], built[j]))
            => built[j].resourceId = built[i].resourceId

\* a re-synthesis of a binding that holds a suffixed id, after another
\* binding was constructed in between
C5_Witness ==
    \E i, j \in 1..Len(built) :
        /\ i + 1 < j
        /\ SameParams(built[i], built[j])
        /\ HasSuffix(built[i])
        /\ built[j].resourceId = built[i].resourceId

Failed == last.pc = "done" /\ last.failure # "none"

\* C1: with failure mode BEST_EFFORT an invocation that met an error at any
\* stage (read, credentials, size, presign, upload, commit) did not throw: it
\* returned a response with IngestStatus FAILED, and the operation went on.
C1_BestEffortNeverThrows ==
    (Failed /\ failureModeOf(env) = "BEST_EFFORT")
        => /\ last.outcome.kind = "returned"
           /\ last.outcome.response.Data.IngestStatus = "FAILED"
           /\ crState = IF last.event.RequestType = "Delete"
                            THEN "absent" ELSE "present"

\* a failed upload of a Create under BEST_EFFORT, reported as FAILED
C1_Witness ==
    /\ Failed
    /\ failureModeOf(env) = "BEST_EFFORT"
    /\ last.failure = "upload"
    /\ last.event.RequestType = "Create"
    /\ last.outcome.kind = "returned"
    /\ last.outcome.response.Data.IngestStatus = "FAILED"

\* C2: with failure mode STRICT an invocation that met an error in
\* credential resolution, the network or the remote service threw it again
\* and returned no response.
C2_StrictRethrows ==
    (Failed /\ failureModeOf(env) = "STRICT") => last.outcome.kind = "thrown"

\* a rejected commit of an Update under STRICT, thrown
C2_Witness ==
    /\ Failed
    /\ failureModeOf(env) = "STRICT"
    /\ last.failure = "commit"
    /\ last.event.RequestType = "Update"
    /\ last.outcome.kind = "thrown"

\* C3: all attempts of one lifecycle operation (one request identifier)
\* submit the same eventId to the remote service.
C3_RetryReusesEventId == Cardinality(opEventIds) <= 1

CallOrder == <<"upload-url", "upload", "snapshot-ref">>

\* the call got a 2xx answer, and for the API calls one the caller can read
CompletedSuccessfully(call) ==
    IF call.name = "upload" THEN call.outcome \in {"ok", "badBody"}
    ELSE call.outcome = "ok"

\* C7: the calls of a Create/Update invocation are presign, upload, commit in
\* that order, each issued only after the one before it completed
\* successfully; no commit is sent for an upload that did not succeed.
C7_PresignUploadCommitInOrder ==
    last.event.RequestType \in {"Create", "Update"}
        => /\ Len(last.calls) <= Len(CallOrder)
           /\ \A k \in 1..Len(last.calls) :
                  /\ last.calls[k].name = CallOrder[k]
                  /\ k < Len(last.calls) => CompletedSuccessfully(last.calls[k])

\* a Create that went through the three calls
C7_Witness ==
    /\ last.pc = "done"
    /\ last.failure = "none"
    /\ last.event.RequestType = "Create"
    /\ Len(last.calls) = 3
    /\ last.calls[3].payload.action = "UPSERT"

Transient == {"http5xx", "timeout", "netError"}

\* C9: a remote call that failed with a transient network or 5xx error was
\* attempted the configured number of times before the failure surfaced.
C9_TransientFailureRetried ==
    \A k \in 1..Len(last.calls) :
        last.calls[k].outcome \in Transient
            => last.calls[k].attempts = RetryAttempts

Transmits(call) ==
    \/ call.name \in {"upload-url", "upload"}
    \/ call.name = "snapshot-ref" /\ call.payload.action = "UPSERT"

\* C10: for a snapshot whose byte size exceeds the configured maximum no
\* presign, upload or commit request is issued, and a Create/Update that got
\* its credentials ends with the size error.
C10_OversizedNeverTransmitted ==
    (last.file.kind = "snapshot" /\ last.file.bytes > maxSnapshotBytesOf(env))
        => /\ \A k \in 1..Len(last.calls) : ~Transmits(last.calls[k])
           /\ (last.pc = "done" /\ last.event.RequestType # "Delete")
                  => last.failure \in {"credentials", "size"}

(***************************************************************************)
(* Claims about a binding from synthesis to deletion (under Spec).         *)
(***************************************************************************)
\* C8: a DELETE notice carries the resourceId of the UPSERTs sent for the
\* binding, never another one.
C8_DeleteCarriesUpsertedId ==
    \A d, u \in sentRefs :
        (d[1] = "DELETE" /\ u[1] = "UPSERT") => d[2] = u[2]

\* a DELETE sent after an UPSERT for a binding that holds a suffixed id
C8_Witness ==
    \E d \in sentRefs :
        /\ d[1] = "DELETE"
        /\ <<"UPSERT", d[2]>> \in sentRefs
        /\ d[2] # BaseId(getResourceName(HookDecl), getEntityName(HookDecl))

(***************************************************************************)
(* Claims about what flows through the orchestrator's channels.            *)
(***************************************************************************)
RequiredData == {"EventId", "IngestStatus", "Action", "Timestamp"}
OptionalData == {"ContentHash", "Error"}

C13_NoCredentialValueSynthesized ==
    \A i \in 1..Len(built) :
        /\ built[i].environment.API_KEY = ""
        /\ built[i].environment.API_SECRET = ""

(***************************************************************************)
(* Claims about the constructor's validation (under BinderSpec).           *)
(***************************************************************************)
MalformedCredentials(c) ==
    \/ c.credentialType = "absent"
    \/ c.credentialType = "secretsManager" /\ c.secretName = ""
    \/ c.credentialType = "direct" /\ (c.apiKey = "" \/ c.apiSecret = "")

Faulty(props) ==
    \/ MalformedCredentials(props.credentials)
    \/ props.schema # "ok"
    \/ props.table # "ok"
    \/ props.io # "ok"

\* C14: a construction that meets an error (schema, table handle, credential
\* reference, or a later step) throws and constructs no binder, whatever
\* the configured failure mode.
C14_SynthesisErrorsAbort ==
    [][(attempt'.made /\ Faulty(attempt'.props))
           => (attempt'.threw /\ built' = built)]_vars

\* an invalid schema under BEST_EFFORT, thrown
C14_Witness ==
    /\ attempt.made
    /\ attempt.props.failureMode = "BEST_EFFORT"
    /\ attempt.props.schema = "invalid"
    /\ attempt.threw

ExactlyOneKind(c) ==
    (c.apiKey # "" /\ c.apiSecret # "") # (c.secretName # "")

\* C15: a construction goes through only if the credential reference is
\* exactly one of an inline key/secret pair and a named secret reference.
C15_CredentialsExactlyOne ==
    (attempt.made /\ ~attempt.threw) => ExactlyOneKind(attempt.props.credentials)

(***************************************************************************)
(* Further claims about synthesis (under SynthSpec).                       *)
(***************************************************************************)
\* C16: two constructions that staged their snapshot in the same asset
\* directory are constructions of the same binding.
C16_AssetDirNotShared ==
    \A i, j \in 1..Len(built) :
        built[i].assetDir = built[j].assetDir
            => built[i].identity = built[j].identity

\* C18: every LOCAL snapshot has its action field set to UPSERT.
C18_LocalSnapshotActionUpsert ==
    \A i \in 1..Len(built) : Field(built[i].snapshot, "action") = "UPSERT"

(***************************************************************************)
(* Further claims about a binding from synthesis to deletion (under Spec). *)
(***************************************************************************)
ContentHashOf(snapshot) == sha256(SnapshotFile(snapshot, 2048, 2048))

C19_PhysicalIdStable == Cardinality(physicalIds) <= 1

(***************************************************************************)
(* Claims about concurrent synthesis (under RaceSpec).                     *)
(***************************************************************************)
SameNames(d1, d2) ==
    /\ getResourceName(d1) = getResourceName(d2)
    /\ getEntityName(d1) = getEntityName(d2)

\* both probed the same state of the cache, and each was given an id under
\* which the cache held no file
RacedFresh(p, q) ==
    /\ p # q
    /\ procs[p].pc # "idle" /\ procs[q].pc # "idle"
    /\ procs[p].epoch = procs[q].epoch
    /\ procs[p].fresh /\ procs[q].fresh
    /\ SameNames(procs[p].decl, procs[q].decl)

\* the cache holds no snapshot with the identity of d under that id
Lost(d, resourceId) ==
    LET filePath == getLocalSnapshotPath(d.stackName, DatastoreType, resourceId)
    IN  \/ ~existsSync(cache, filePath)
        \/ cache[filePath].kind # "snapshot"
        \/ cache[filePath].identity # Identity(d)

\* C20: two concurrent constructions with the same names that probed the
\* same cache state for a new id were allocated the same id, whatever their
\* identities; once both have written, the snapshot of one of them is gone.
C20_ConcurrentProbesCollide ==
    \A p, q \in Procs :
        RacedFresh(p, q)
            => /\ procs[p].resourceId = procs[q].resourceId
               /\ (/\ procs[p].pc = "written" /\ procs[q].pc = "written"
                   /\ Identity(procs[p].decl) # Identity(procs[q].decl))
                      => (\/ Lost(procs[p].decl, procs[p].resourceId)
                          \/ Lost(procs[q].decl, procs[q].resourceId))

\* two bindings with distinct identities, allocated the same id in a race,
\* both written: one snapshot overwrote the other
C20_Witness ==
    \E p, q \in Procs :
        /\ RacedFresh(p, q)
        /\ procs[p].pc = "written" /\ procs[q].pc = "written"
        /\ Identity(procs[p].decl) # Identity(procs[q].decl)
        /\ procs[p].resourceId = procs[q].resourceId
        /\ Lost(procs[p].decl, procs[p].resourceId)
        /\ ~Lost(procs[q].decl, procs[q].resourceId)

(***************************************************************************)
(* Claims about the probe loop of the allocator (under SynthSpec).         *)
(***************************************************************************)
\* a file the allocator cannot take for anybody's snapshot
Unidentified(file) ==
    \/ file.kind \in {"noIdentity", "unreadable"}
    \/ file.kind = "snapshot" /\ file.identity.stableResourceKey = ""

Constructed == Len(built') = Len(built) + 1
NewBinder == built'[Len(built')]

\* C21: a file of the cache that holds no identity, or whose identity cannot
\* be read, is never the file a construction is allocated: no construction
\* writes its snapshot over it and its content stays as it was.
C21_UnidentifiedNeverReturned ==
    [][\A p \in DOMAIN cache :
           Unidentified(cache[p])
               => /\ cache'[p] = cache[p]
                  /\ Constructed => NewBinder.path # p]_vars

\* a binder that met a file without identity under its base id and was
\* given a suffixed id, the file still in place
C21_Witness ==
    \E i \in 1..Len(built) :
        LET basePath == getLocalSnapshotPath(built[i].decl.stackName, DatastoreType,
                            BaseId(built[i].resourceName, built[i].entityName))
        IN  /\ existsSync(cache, basePath)
            /\ cache[basePath].kind = "noIdentity"
            /\ HasSuffix(built[i])
            /\ built[i].path # basePath

\* the id with the n-th suffix: the base id, then __2, __3, ...
IdOfSuffix(baseId, n) == IF n = 1 THEN baseId ELSE baseId \o "__" \o ToString(n)

\* C22: the probe loop looks at every suffix once, going on after a file it
\* cannot read or parse: over a cache of k files the allocation ends with
\* an id among the first k + 1 candidates.
C22_ProbeTerminates ==
    [][Constructed
           => \E n \in 1..(Cardinality(DOMAIN cache) + 1) :
                  NewBinder.resourceId
                      = IdOfSuffix(BaseId(NewBinder.resourceName,
                                          NewBinder.entityName), n)]_vars

\* a binder allocated the third candidate after a file without a stable key
\* and an unreadable file, both still in place
C22_Witness ==
    /\ existsSync(cache, LegacyPath2)
    /\ cache[LegacyPath2].kind = "unreadable"
    /\ Unidentified(cache[LegacyPath])
    /\ \E i \in 1..Len(built) :
           /\ BaseId(built[i].resourceName, built[i].entityName) = BaseId("T", "E")
           /\ built[i].resourceId = IdOfSuffix(BaseId("T", "E"), 3)

\* the n-th candidate of binder b is free in `files`, or holds a snapshot
\* with the identity of b
FreeOrOwn(files, b, n) ==
    LET filePath == getLocalSnapshotPath(b.decl.stackName, DatastoreType,
                        IdOfSuffix(BaseId(b.resourceName, b.entityName), n))
    IN  \/ ~existsSync(files, filePath)
        \/ /\ files[filePath].kind = "snapshot"
           /\ files[filePath].identity = b.identity

\* C23: the id a construction is allocated is the first of base, base__2,
\* base__3, ... whose file is absent or holds the identity of the caller.
C23_FirstFreeOrOwnCandidate ==
    [][Constructed
           => \E n \in 1..(Cardinality(DOMAIN cache) + 1) :
                  /\ NewBinder.resourceId
                         = IdOfSuffix(BaseId(NewBinder.resourceName,
                                             NewBinder.entityName), n)
                  /\ FreeOrOwn(cache, NewBinder, n)
                  /\ \A m \in 1..(n - 1) : ~FreeOrOwn(cache, NewBinder, m)]_vars

(***************************************************************************)
(* Claims about the order of the constructor (under BinderSpec).           *)
(***************************************************************************)
Completed(steps, statement) == \E k \in 1..Len(steps) : steps[k] = statement

\* C24: a construction goes through schema loading, metadata extraction,
\* identity resolution, the write of the LOCAL snapshot and the registration
\* of the lifecycle hook in that order and stops at the first that throws:
\* the snapshot is written only after a schema was loaded, the metadata
\* extracted and the identity resolved, and a binder with its hook exists
\* only after the snapshot was written.
C24_ConstructionInOrder ==
    [][attempt'.made
           => LET steps == attempt'.steps
              IN  /\ steps = SubSeq(Statements, 1, Len(steps))
                  /\ Completed(steps, "readSchema") => attempt'.props.schema = "ok"
                  /\ Completed(steps, "extractMetadata") => attempt'.props.table = "ok"
                  /\ (cache' # cache)
                         => Completed(steps, "writeLocalSnapshotToDisk")
                  /\ Completed(steps, "writeLocalSnapshotToDisk")
                         => /\ Completed(steps, "readSchema")
                            /\ Completed(steps, "extractMetadata")
                            /\ Completed(steps, "computeStableResourceKey")
                  /\ (built' # built)
                         <=> Completed(steps, "deployIngestionResources")
                  /\ Completed(steps, "deployIngestionResources")
                         => /\ Completed(steps, "writeLocalSnapshotToDisk")
                            /\ existsSync(cache', NewBinder.path)
                            /\ cache'[NewBinder.path] = NewBinder.snapshot]_vars

\* a construction that wrote the LOCAL snapshot and threw before the hook
\* was registered
C24_Witness ==
    /\ attempt.made
    /\ attempt.threw
    /\ Completed(attempt.steps, "writeLocalSnapshotToDisk")
    /\ ~Completed(attempt.steps, "deployIngestionResources")
    /\ DOMAIN cache # {}

(***************************************************************************)
(* Claims about re-deployment (under Spec).                                *)
(***************************************************************************)
\* two snapshots of one binding with the same schema, metadata and identity:
\* they agree in every field but the time of the synthesis
Unchanged(s1, s2) ==
    [s1 EXCEPT !.capturedAt = ""] = [s2 EXCEPT !.capturedAt = ""]

\* C25: the content hash an invocation computes is the hash of the snapshot
\* of every other synthesis of the same, unchanged binding, so that the
\* service recognises the upload after a re-synthesis as identical content.
C25_UnchangedBindingSameHash ==
    (last.file.kind = "snapshot" /\ last.contentHash # "")
        => \A k \in 1..Len(built) :
               Unchanged(built[k].snapshot, last.file.content)
                   => ContentHashOf(built[k].snapshot) = last.contentHash

(***************************************************************************)
(* Claims about the end of an invocation (under TimedSpec).                *)
(***************************************************************************)
\* C26: no call of an invocation stays pending beyond the request timeout,
\* and an invocation that ended did so by returning a response or throwing.
C26_InvocationEndsByReturnOrThrow ==
    /\ last.pc # "blocked"
    /\ last.pc = "done" => last.outcome.kind \in {"returned", "thrown"}

(***************************************************************************)
(* Claims about the stable resource key (under SynthSpec).                 *)
(***************************************************************************)
Concrete(value) == value # "" /\ ~isToken(value)

\* the key the preference order gives for the table and place of d
FirstMatch(d) ==
    IF Concrete(d.tableName) THEN "tableName:" \o d.tableName
    ELSE IF Concrete(d.logicalId) THEN "logicalId:" \o d.logicalId
    ELSE "path:" \o d.path

\* C27: the stable resource key of every binder is the first of
\* tableName:<physical name>, logicalId:<logical id>, path:<construct path>
\* whose value is at hand and holds no unresolved placeholder.
C27_KeyByFirstMatch ==
    \A i \in 1..Len(built) :
        built[i].identity.stableResourceKey = FirstMatch(built[i].decl)

(***************************************************************************)
(* Claims about schema validation (under SchemaSpec).                      *)
(***************************************************************************)
\* the documented checks, in their order: 1 top-level keys, 2 primary key,
\* 3 shape of the fields, 4 duplicate names, 5 enum, 6 default
Rules == 1..6

Violates(schema, rule) ==
    LET entity == schema.entity
        fields == entity.fields
    IN  IF rule = 1
            THEN \/ schema.schemaVersion = "" \/ schema.namespace = ""
                 \/ schema.description = "" \/ ~entity.present
        ELSE IF ~entity.present THEN FALSE
        ELSE IF rule = 2
            THEN \/ ~entity.primaryKey.present
                 \/ entity.primaryKey.partitionKey = ""
                 \/ ~entity.primaryKey.isString
        ELSE IF rule = 3
            THEN \/ fields = <<>>
                 \/ \E k \in 1..Len(fields) :
                        fields[k].name = "" \/ fields[k].type \notin FieldTypes
        ELSE IF rule = 4
            THEN \E j, k \in 1..Len(fields) :
                     j < k /\ fields[j].name # "" /\ fields[j].name = fields[k].name
        ELSE IF rule = 5
            THEN \E k \in 1..Len(fields) : fields[k].enum = "empty"
        ELSE \E k \in 1..Len(fields) :
                 /\ fields[k].default # "absent"
                 /\ fields[k].type \in FieldTypes
                 /\ fields[k].default
                        # (IF fields[k].type = "timestamp" THEN "string"
                           ELSE fields[k].type)

\* the documented check an error message reports
RuleOf(error) ==
    IF Includes(error, "Schema must include") THEN 1
    ELSE IF Includes(error, "primaryKey") \/ Includes(error, "PrimaryKey") THEN 2
    ELSE IF \/ Includes(error, "fields array")
            \/ Includes(error, "must include name")
            \/ Includes(error, "must have a valid type") THEN 3
    ELSE IF Includes(error, "Duplicate field name") THEN 4
    ELSE IF Includes(error, "enum must be") THEN 5
    ELSE 6

\* C28: validation throws exactly when some documented check is violated,
\* and the error it throws is that of the earliest violated check.
C28_EarliestViolationReported ==
    (svcCall.fn = "validateSchema" /\ svcCall.done)
        => /\ (svcCall.error = "") <=> (\A r \in Rules : ~Violates(svcCall.arg, r))
           /\ svcCall.error # ""
                  => /\ Violates(svcCall.arg, RuleOf(svcCall.error))
                     /\ \A r \in Rules :
                            r < RuleOf(svcCall.error) => ~Violates(svcCall.arg, r)

(***************************************************************************)
(* Claims about metadata extraction (under MetadataSpec).                  *)
(***************************************************************************)
Missing(value) == value = "" \/ value = Undefined

\* C29: a metadata record that extraction returns holds the partition key
\* of the table, the partition key of every global secondary index and the
\* sort key of every local secondary index; when one is missing in the
\* table resource, extraction throws.
C29_MetadataCompleteOrThrows ==
    (svcCall.fn = "extractMetadata" /\ svcCall.done /\ ~svcCall.result.threw)
        => LET m == svcCall.result.metadata
           IN  /\ ~Missing(m.partitionKey)
               /\ \A k \in 1..Len(m.globalSecondaryIndexes) :
                      ~Missing(m.globalSecondaryIndexes[k].partitionKey)
               /\ \A k \in 1..Len(m.localSecondaryIndexes) :
                      ~Missing(m.localSecondaryIndexes[k].sortKey)

(***************************************************************************)
(* Claims about the resource id of a binding (under LibSpec).              *)
(***************************************************************************)
\* C30: for every binder the id in the name of the LOCAL snapshot file, the
\* resourceId field of the staged snapshot, the id that names the asset
\* directory and the ResourceId property of the custom resource are one
\* and the same string.
C30_OneResourceIdEverywhere ==
    \A i \in 1..Len(built) :
        LET id == built[i].properties.ResourceId
            stackName == built[i].decl.stackName
        IN  /\ built[i].snapshot.resourceId = id
            /\ built[i].path
                   = getSnapshotDir(stackName, DatastoreType) \o "/" \o id \o ".json"
            /\ built[i].assetDir = "cdk.out/chaim/assets/" \o stackName \o "/" \o id

====
